---- MODULE Spec2Model ----
(***************************************************************************)
(* Model of validate_traefik.py: the structural validator                  *)
(* (validate_traefik_config) and the auto-corrector (auto_correct_config)  *)
(* over parsed YAML documents.                                             *)
(*                                                                         *)
(* A parsed YAML value is a record [t, s, ks]: t is the Python type        *)
(* ("null", "str", "num", "seq", "map"; "absent" marks a key that is not   *)
(* in its mapping), s the text of a string or the decimal text of a        *)
(* number, ks the keys of a mapping or the (string) elements of a          *)
(* sequence.  Routers, sections and the document root are records whose    *)
(* fields are the keys the program looks at.                               *)
(***************************************************************************)
EXTENDS Integers, Sequences, FiniteSets, TLC

VARIABLES
    input,      \* the document as the parser delivered it (never written)
    config,     \* the caller's document object; auto_correct_config writes into its sections
    pc,         \* which calls have been made
    vres,       \* outcome of validate_traefik_config(config)
    cres,       \* outcome of auto_correct_config(config)
    cres2,      \* outcome of auto_correct_config applied to the document cres holds
    vres2,      \* outcome of validate_traefik_config applied to the document cres holds
    auto_correct,   \* main: '--auto-correct' was on the command line
    yaml_files,     \* main: how many .yml/.yaml files the directory walk found
    success,        \* main: the flag of lines 258-262
    exit_code,      \* main: the process exit status, -1 while it runs
    parsed,         \* process_file: what yaml.safe_load returned (root value)
    steps,          \* process_file: the calls made for the current file, in order
    outcome,        \* process_file: how each call for the current file ended
    returns         \* main: the outcome of every process_file call so far

docvars == <<input, config, vres, cres, cres2, vres2>>
mainvars == <<auto_correct, yaml_files, success, exit_code, parsed, steps, outcome, returns>>
vars == <<input, config, pc, vres, cres, cres2, vres2,
          auto_correct, yaml_files, success, exit_code, parsed, steps, outcome, returns>>

----------------------------------------------------------------------------
(* Bounds *)

MaxRouters == 2     \* routers per 'routers' mapping
MaxNodes == 6       \* keys present in a document, over all levels
MaxFiles == 2       \* files the directory walk of main finds

----------------------------------------------------------------------------
(* Parsed YAML values *)

Absent == [t |-> "absent", s |-> "", ks |-> {}]
Null == [t |-> "null", s |-> "", ks |-> {}]
Str(x) == [t |-> "str", s |-> x, ks |-> {}]
Num(x) == [t |-> "num", s |-> x, ks |-> {}]
SeqOf(elems) == [t |-> "seq", s |-> "", ks |-> elems]
MapOf(keys) == [t |-> "map", s |-> "", ks |-> keys]

\* Python truth value of a parsed value (bool(x))
Truthy(v) ==
    CASE v.t = "str" -> v.s # ""
      [] v.t = "num" -> v.s # "0"
      [] v.t = "seq" -> v.ks # {}
      [] v.t = "map" -> v.ks # {}
      [] OTHER -> FALSE

\* dict.get(key): a missing key reads as None
Get(v) == IF v.t = "absent" THEN Null ELSE v

\* dict.get(key, {}): a missing key reads as the empty mapping
GetOrEmpty(v) == IF v.t = "absent" THEN MapOf({}) ELSE v

\* isinstance(x, dict) / isinstance(x, str)
IsDict(v) == v.t = "map"
IsStr(v) == v.t = "str"

\* str.endswith
EndsWith(x, suffix) ==
    /\ Len(x) >= Len(suffix)
    /\ SubSeq(x, Len(x) - Len(suffix) + 1, Len(x)) = suffix

\* the substring test Python's "in" makes when the right operand is a string
IsSubstring(x, y) ==
    \E i \in 1..(Len(y) - Len(x) + 1) : SubSeq(y, i, i + Len(x) - 1) = x

Whitespace == {" ", "\t", "\n", "\r"}

\* str.strip(): drop leading and trailing whitespace
RECURSIVE LStrip(_)
LStrip(x) ==
    IF Len(x) > 0 /\ SubSeq(x, 1, 1) \in Whitespace
    THEN LStrip(SubSeq(x, 2, Len(x)))
    ELSE x

RECURSIVE RStrip(_)
RStrip(x) ==
    IF Len(x) > 0 /\ SubSeq(x, Len(x), Len(x)) \in Whitespace
    THEN RStrip(SubSeq(x, 1, Len(x) - 1))
    ELSE x

Strip(x) == RStrip(LStrip(x))

\* str.upper() on the section names
UpperChar(c) ==
    CASE c = "h" -> "H" [] c = "t" -> "T" [] c = "p" -> "P"
      [] c = "c" -> "C" [] c = "u" -> "U" [] c = "d" -> "D"
      [] OTHER -> c

RECURSIVE Upper(_)
Upper(x) ==
    IF Len(x) = 0 THEN x
    ELSE UpperChar(SubSeq(x, 1, 1)) \o Upper(SubSeq(x, 2, Len(x)))

----------------------------------------------------------------------------
(* Documents *)

Sections == <<"http", "tcp", "udp">>

RouterNames == <<"r1", "r2", "r3">>

\* a router entry that is not a mapping, and one that is
NonMapRouter(type) == [t |-> type, rule |-> Absent, service |-> Absent]
MapRouter(rule, service) == [t |-> "map", rule |-> rule, service |-> service]

\* the value under 'routers': items is the mapping's entries in key order
AbsentRouters == [t |-> "absent", items |-> <<>>]
NonMapRouters(type) == [t |-> type, items |-> <<>>]
MapRouters(items) == [t |-> "map", items |-> items]

\* the value under http / tcp / udp
AbsentSection ==
    [t |-> "absent", routers |-> AbsentRouters, services |-> Absent,
     middlewares |-> Absent, extra |-> Absent]
NonMapSection(type) ==
    [t |-> type, routers |-> AbsentRouters, services |-> Absent,
     middlewares |-> Absent, extra |-> Absent]
MapSection(routers, services, middlewares, extra) ==
    [t |-> "map", routers |-> routers, services |-> services,
     middlewares |-> middlewares, extra |-> extra]

\* values a router's 'rule' takes
RuleValues == {Null, Str(""), Str("  "), Str("Host(a.com)"), Num("123")}

\* values a router's 'service' takes
ServiceValues == {Str(""), Str("s1"), Str("api@internal"), Num("123")}

\* values a section's 'services' takes
ServicesValues == {Null, Str("xs1x"), MapOf({}), MapOf({"s1"}), MapOf({"s2"})}

\* values a section's 'middlewares' and its other key ('serversTransports') take
MiddlewaresValues == {Null, MapOf({"auth"})}
ExtraValues == {MapOf({"t1"})}

\* values of entryPoints and of a root key that is not Traefik's
EntryPointsValues == {Null, Str("web"), MapOf({}), MapOf({"web"})}
OtherValues == {Str("3")}

NonMapTypes == {"null", "str", "seq"}

Present(v) == IF v.t = "absent" THEN 0 ELSE 1

RouterValues ==
    {NonMapRouter(type) : type \in NonMapTypes}
    \cup {MapRouter(r, s) : r \in {Absent} \cup RuleValues,
                            s \in {Absent} \cup ServiceValues}

RouterSize(r) == 1 + Present(r.rule) + Present(r.service)

RECURSIVE ItemsSize(_)
ItemsSize(items) ==
    IF items = <<>> THEN 0
    ELSE RouterSize(Head(items).val) + ItemsSize(Tail(items))

RoutersSize(rs) == IF rs.t = "absent" THEN 0 ELSE 1 + ItemsSize(rs.items)

ItemsOfLen(n) ==
    {[i \in 1..n |-> [name |-> RouterNames[i], val |-> f[i]]] :
        f \in [1..n -> RouterValues]}

RoutersValues ==
    {AbsentRouters}
    \cup {NonMapRouters(type) : type \in NonMapTypes}
    \cup {rs \in UNION {{MapRouters(items) : items \in ItemsOfLen(n)} :
                            n \in 0..MaxRouters} :
            RoutersSize(rs) <= MaxNodes - 1}

SectionSize(sec) ==
    IF sec.t = "absent" THEN 0
    ELSE 1 + RoutersSize(sec.routers) + Present(sec.services)
           + Present(sec.middlewares) + Present(sec.extra)

SectionValues ==
    {AbsentSection}
    \cup {NonMapSection(type) : type \in NonMapTypes}
    \cup {sec \in {MapSection(rs, sv, mw, ex) :
                      rs \in RoutersValues,
                      sv \in {Absent} \cup ServicesValues,
                      mw \in {Absent} \cup MiddlewaresValues,
                      ex \in {Absent} \cup ExtraValues} :
            SectionSize(sec) <= MaxNodes}

\* the section values, by number of keys
SectionsOfSize == [k \in 0..MaxNodes |-> {sec \in SectionValues : SectionSize(sec) = k}]

DocSize(d) ==
    SectionSize(d.http) + SectionSize(d.tcp) + SectionSize(d.udp)
    + Present(d.entryPoints) + Present(d.other)

\* how the keys of a document divide between http, tcp, udp, entryPoints and
\* one other root key
Splits ==
    {sp \in (0..MaxNodes) \X (0..MaxNodes) \X (0..MaxNodes) \X (0..1) \X (0..1) :
        sp[1] + sp[2] + sp[3] + sp[4] + sp[5] <= MaxNodes}

\* the documents of at most MaxNodes keys that divide as sp says
DocumentsOfSplit(sp) ==
    {[http |-> h, tcp |-> tc, udp |-> u, entryPoints |-> ep, other |-> o] :
        h \in SectionsOfSize[sp[1]],
        tc \in SectionsOfSize[sp[2]],
        u \in SectionsOfSize[sp[3]],
        ep \in IF sp[4] = 0 THEN {Absent} ELSE EntryPointsValues,
        o \in IF sp[5] = 0 THEN {Absent} ELSE OtherValues}

----------------------------------------------------------------------------
(* validate_traefik_config *)

MsgNoConfig ==
    "No Traefik configuration found (missing http, tcp, udp, or entryPoints sections)"
MsgEntryPoints == "Missing or empty 'entryPoints' configuration."
MsgSectionNotDict(section) == "Section '" \o section \o "' is not a valid dictionary."
MsgRoutersNotDict(section) ==
    "'routers' in section '" \o section \o "' is not a valid dictionary."
MsgRouterNotDict(name, section) ==
    "Router '" \o name \o "' in " \o Upper(section) \o " is not a valid dictionary."
MsgRuleMissing(name, section) ==
    "Router '" \o name \o "' in " \o Upper(section)
        \o " has a missing, empty, or invalid rule."
MsgRuleType(name, section) ==
    "Router '" \o name \o "' in " \o Upper(section)
        \o " has an invalid rule type (must be a string)."
MsgServiceType(name, section) ==
    "Router '" \o name \o "' in " \o Upper(section)
        \o " has an invalid service name type."
MsgUndefinedService(name, section, service) ==
    "Router '" \o name \o "' in " \o Upper(section)
        \o " references undefined service '" \o service \o "'."
MsgMissingServices(section) ==
    "Missing or empty 'services' in " \o Upper(section)
        \o " configuration, but at least one router references a non-internal service."
MsgMissingRouters(section) ==
    "Missing 'routers' in " \o Upper(section)
        \o " configuration, but 'services' are defined."

SectionOf(doc, section) ==
    CASE section = "http" -> doc.http
      [] section = "tcp" -> doc.tcp
      [] section = "udp" -> doc.udp

\* set(section_config.keys())
SectionKeys(sec) ==
    {k \in {"routers", "services", "middlewares", "extra"} :
        CASE k = "routers" -> sec.routers.t # "absent"
          [] k = "services" -> sec.services.t # "absent"
          [] k = "middlewares" -> sec.middlewares.t # "absent"
          [] k = "extra" -> sec.extra.t # "absent"}

\* IsEmptyDoc without the early return of line 56: no document counts as empty
IsEmptyDocNever(doc) == FALSE

\* "not config" on the root mapping
IsEmptyDoc(doc) ==
    /\ doc.http.t = "absent" /\ doc.tcp.t = "absent" /\ doc.udp.t = "absent"
    /\ doc.entryPoints.t = "absent" /\ doc.other.t = "absent"

\* HasHttpTcpUdp with line 59 written any(key for key in [...]): the keys
\* themselves are truthy, so the test passes on every document
HasHttpTcpUdpAlways(doc) == TRUE

\* any(key in config for key in ['http', 'tcp', 'udp'])
HasHttpTcpUdp(doc) ==
    \E i \in 1..Len(Sections) : SectionOf(doc, Sections[i]).t # "absent"

HasEntryPoints(doc) == doc.entryPoints.t # "absent"

\* the test of line 66: entryPoints missing, not a mapping, or empty
EntryPointsInvalid(doc) ==
    \/ ~HasEntryPoints(doc)
    \/ ~IsDict(Get(doc.entryPoints))
    \/ ~Truthy(doc.entryPoints)

\* lines 66-69: the errors list after the entryPoints gate
EntryPointsGate(doc) ==
    IF /\ EntryPointsInvalid(doc)
       /\ \/ HasHttpTcpUdp(doc)
          \/ /\ HasEntryPoints(doc)
             /\ (~IsDict(Get(doc.entryPoints)) \/ ~Truthy(doc.entryPoints))
    THEN <<MsgEntryPoints>>
    ELSE <<>>

\* EntryPointsCollapse without the "not config['entryPoints']" of line 72
EntryPointsCollapseAnyInvalid(doc, errors) ==
    /\ HasEntryPoints(doc)
    /\ ~HasHttpTcpUdp(doc)
    /\ \/ \E i \in 1..Len(errors) : errors[i] = MsgEntryPoints
       \/ ~IsDict(Get(doc.entryPoints))

\* lines 72-73: entryPoints alone and empty counts as no configuration
EntryPointsCollapse(doc, errors) ==
    /\ HasEntryPoints(doc)
    /\ ~Truthy(doc.entryPoints)
    /\ ~HasHttpTcpUdp(doc)
    /\ \/ \E i \in 1..Len(errors) : errors[i] = MsgEntryPoints
       \/ ~IsDict(Get(doc.entryPoints))

\* lines 103-112: the rule errors of one mapping-typed router
RuleErrors(section, name, router) ==
    LET rule == Get(router.rule) IN
    IF section \in {"http", "tcp"}
    THEN IF ~Truthy(rule) \/ ~IsStr(rule) \/ ~Truthy(Str(Strip(rule.s)))
         THEN <<MsgRuleMissing(name, section)>>
         ELSE <<>>
    ELSE IF section = "udp" /\ rule.t # "null" /\ ~IsStr(rule)
         THEN <<MsgRuleType(name, section)>>
         ELSE IF Truthy(rule) /\ ~IsStr(rule)
              THEN <<MsgRuleType(name, section)>>
              ELSE <<>>

\* "x in container": membership for a mapping or a sequence, substring for a
\* string; None and numbers are not iterable
InRaises(container) == container.t \in {"null", "num"}
In(x, container) ==
    CASE container.t \in {"map", "seq"} -> x \in container.ks
      [] container.t = "str" -> IsSubstring(x, container.s)
      [] OTHER -> FALSE

\* service_name.endswith('@internal')
IsInternal(name) == EndsWith(name, "@internal")

\* lines 119-124: the service errors of one mapping-typed router, or the
\* exception the membership test raises
ServiceErrors(section, name, router, services) ==
    LET service_name == Get(router.service) IN
    IF ~Truthy(service_name) THEN [exc |-> "", errors |-> <<>>]
    ELSE IF ~IsStr(service_name)
         THEN [exc |-> "", errors |-> <<MsgServiceType(name, section)>>]
         ELSE IF IsInternal(service_name.s) THEN [exc |-> "", errors |-> <<>>]
              ELSE IF InRaises(services) THEN [exc |-> "TypeError", errors |-> <<>>]
                   ELSE IF ~In(service_name.s, services)
                        THEN [exc |-> "",
                              errors |-> <<MsgUndefinedService(name, section, service_name.s)>>]
                        ELSE [exc |-> "", errors |-> <<>>]

\* RouterLoop with the service check of lines 118-124 placed before the rule
\* check of lines 102-112
RECURSIVE RouterLoopServiceFirst(_, _, _, _, _)
RouterLoopServiceFirst(section, items, services, i, st) ==
    IF i > Len(items) \/ st.exc # "" THEN st
    ELSE LET router_name == items[i].name
             router_config == items[i].val
         IN IF ~IsDict(router_config)
            THEN RouterLoopServiceFirst(section, items, services, i + 1,
                     [st EXCEPT !.errors = Append(@, MsgRouterNotDict(router_name, section))])
            ELSE LET rerrs == RuleErrors(section, router_name, router_config)
                     serrs == ServiceErrors(section, router_name, router_config, services)
                 IN RouterLoopServiceFirst(section, items, services, i + 1,
                        [st EXCEPT !.errors = @ \o serrs.errors \o rerrs,
                                   !.exc = serrs.exc])

\* lines 97-124: the loop over routers.items(), from entry i on; st carries the
\* errors list and the exception raised so far
RECURSIVE RouterLoop(_, _, _, _, _)
RouterLoop(section, items, services, i, st) ==
    IF i > Len(items) \/ st.exc # "" THEN st
    ELSE LET router_name == items[i].name
             router_config == items[i].val
         IN IF ~IsDict(router_config)
            THEN RouterLoop(section, items, services, i + 1,
                     [st EXCEPT !.errors = Append(@, MsgRouterNotDict(router_name, section))])
            ELSE LET rerrs == RuleErrors(section, router_name, router_config)
                     serrs == ServiceErrors(section, router_name, router_config, services)
                 IN RouterLoop(section, items, services, i + 1,
                        [st EXCEPT !.errors = @ \o rerrs \o serrs.errors,
                                   !.exc = serrs.exc])

\* lines 129-135: the loop that sets references_noninternal_service; it reads the
\* service of router_config, the variable the loop of line 97 left at the LAST
\* entry of routers, not of the router it is looking at
RECURSIVE ReferenceScan(_, _)
ReferenceScan(items, i) ==
    IF i > Len(items) THEN [exc |-> "", flag |-> "False"]
    ELSE LET router == items[i].val
             router_config == items[Len(items)].val
         IN IF IsDict(router) /\ router.service.t # "absent" /\ Truthy(router.service)
            THEN IF ~IsDict(router_config)
                 THEN [exc |-> "AttributeError", flag |-> "False"]
                 ELSE LET service_val == Get(router_config.service)
                      IN IF IsStr(service_val) /\ ~IsInternal(service_val.s)
                         THEN [exc |-> "", flag |-> "True"]
                         ELSE ReferenceScan(items, i + 1)
            ELSE ReferenceScan(items, i + 1)

\* line 138: 'services' missing, not a mapping, or empty
ServicesMissingOrEmpty(sec) ==
    \/ sec.services.t = "absent"
    \/ ~IsDict(Get(sec.services))
    \/ ~Truthy(Get(sec.services))

\* lines 144-146: the orphan-services check
MissingRoutersErrors(section, sec) ==
    IF /\ sec.services.t # "absent"
       /\ Truthy(sec.services)
       /\ sec.routers.t = "absent"
       /\ ~(SectionKeys(sec) \subseteq {"middlewares", "services"})
    THEN <<MsgMissingRouters(section)>>
    ELSE <<>>

\* MiddlewaresOnly with the subset test of line 87 written as an equality
MiddlewaresOnlyStrict(sec) == SectionKeys(sec) = {"middlewares"}

\* line 87: the section holds nothing but 'middlewares'
MiddlewaresOnly(sec) == SectionKeys(sec) \subseteq {"middlewares"}

\* lines 126-146: what follows the router loop.  st.refs is the local variable
\* references_noninternal_service: "unbound" until line 128 first assigns it, and
\* kept from one section to the next
AfterRouters(section, sec, routers, st) ==
    LET scan == IF routers.items # <<>>
                THEN ReferenceScan(routers.items, 1)
                ELSE [exc |-> "", flag |-> st.refs]
    IN IF scan.exc # "" THEN [st EXCEPT !.exc = scan.exc]
       ELSE IF scan.flag = "unbound" THEN [st EXCEPT !.exc = "UnboundLocalError"]
       ELSE [st EXCEPT
               !.refs = scan.flag,
               !.errors = @ \o (IF scan.flag = "True" /\ ServicesMissingOrEmpty(sec)
                                THEN <<MsgMissingServices(section)>> ELSE <<>>)
                            \o MissingRoutersErrors(section, sec)]

\* lines 79-146: one iteration of the loop over ['http', 'tcp', 'udp']
SectionStep(section, doc, st) ==
    LET section_config == SectionOf(doc, section) IN
    IF st.exc # "" \/ section_config.t = "absent" THEN st
    ELSE IF ~IsDict(section_config)
         THEN [st EXCEPT !.errors = Append(@, MsgSectionNotDict(section))]
    ELSE IF MiddlewaresOnly(section_config) THEN st
    ELSE LET routers == IF section_config.routers.t = "absent"
                        THEN MapRouters(<<>>) ELSE section_config.routers
             services == GetOrEmpty(section_config.services)
         IN IF routers.t # "map"
            THEN [st EXCEPT !.errors = Append(@, MsgRoutersNotDict(section))]
            ELSE LET st1 == RouterLoop(section, routers.items, services, 1, st)
                 IN IF st1.exc # "" THEN st1
                    ELSE AfterRouters(section, section_config, routers, st1)

\* lines 47-148
validate_traefik_config(doc) ==
    IF IsEmptyDoc(doc) THEN [exc |-> "", errors |-> <<>>]
    ELSE IF ~HasHttpTcpUdp(doc) /\ ~HasEntryPoints(doc)
         THEN [exc |-> "", errors |-> <<MsgNoConfig>>]
    ELSE LET errors == EntryPointsGate(doc) IN
         IF EntryPointsCollapse(doc, errors)
         THEN [exc |-> "", errors |-> <<MsgNoConfig>>]
         ELSE LET st0 == [errors |-> errors, refs |-> "unbound", exc |-> ""]
                  st1 == SectionStep("http", doc, st0)
                  st2 == SectionStep("tcp", doc, st1)
                  st3 == SectionStep("udp", doc, st2)
              IN IF st3.exc # "" THEN [exc |-> st3.exc, errors |-> <<>>]
                 ELSE [exc |-> "", errors |-> st3.errors]

----------------------------------------------------------------------------
(* auto_correct_config *)

\* lines 166-172: some mapping-typed router has a truthy 'service' that is not
\* a string ending with '@internal'
RECURSIVE CorrectorReferenceScan(_, _)
CorrectorReferenceScan(items, i) ==
    IF i > Len(items) THEN FALSE
    ELSE LET router == items[i].val IN
         IF IsDict(router) /\ router.service.t # "absent" /\ Truthy(router.service)
         THEN LET service_val == router.service
              IN IF ~(IsStr(service_val) /\ IsInternal(service_val.s))
                 THEN TRUE
                 ELSE CorrectorReferenceScan(items, i + 1)
         ELSE CorrectorReferenceScan(items, i + 1)

\* lines 162-163: 'routers' is inserted when the section has 'services' and no
\* 'routers'
InsertRouters(sec) ==
    IF /\ (sec.services.t # "absent" \/ sec.routers.t # "absent")
       /\ sec.routers.t = "absent"
    THEN [sec EXCEPT !.routers = MapRouters(<<>>)]
    ELSE sec

\* InsertServices with the test of line 173 reduced to 'services' not in section
InsertServicesAlways(sec, references_noninternal_service) ==
    IF sec.services.t = "absent"
    THEN [sec EXCEPT !.services = MapOf({})]
    ELSE sec

\* InsertServices with the test "'services' not in section_config" of line 173
\* left out: an existing 'services' is replaced
InsertServicesOverwrite(sec, references_noninternal_service) ==
    IF references_noninternal_service
    THEN [sec EXCEPT !.services = MapOf({})]
    ELSE sec

\* InsertServices storing a placeholder service instead of the empty mapping of
\* line 174
InsertServicesPlaceholder(sec, references_noninternal_service) ==
    IF references_noninternal_service /\ sec.services.t = "absent"
    THEN [sec EXCEPT !.services = MapOf({"default"})]
    ELSE sec

\* lines 173-174
InsertServices(sec, references_noninternal_service) ==
    IF references_noninternal_service /\ sec.services.t = "absent"
    THEN [sec EXCEPT !.services = MapOf({})]
    ELSE sec

\* lines 156-174: one section, written in place; exc is the exception that
\* .keys() or .values() raises on a value that is not a mapping
CorrectSection(sec) ==
    IF ~IsDict(sec) THEN [exc |-> "AttributeError", sec |-> sec]
    ELSE IF MiddlewaresOnly(sec) THEN [exc |-> "", sec |-> sec]
    ELSE LET sec1 == InsertRouters(sec)
             routers == IF sec1.routers.t = "absent"
                        THEN MapRouters(<<>>) ELSE sec1.routers
         IN IF routers.t # "map" THEN [exc |-> "AttributeError", sec |-> sec1]
            ELSE [exc |-> "",
                  sec |-> InsertServices(sec1, CorrectorReferenceScan(routers.items, 1))]

WithSection(doc, section, sec) ==
    CASE section = "http" -> [doc EXCEPT !.http = sec]
      [] section = "tcp" -> [doc EXCEPT !.tcp = sec]
      [] section = "udp" -> [doc EXCEPT !.udp = sec]

\* lines 154-174: one iteration of the loop over ['http', 'tcp', 'udp']
CorrectStep(section, st) ==
    IF st.exc # "" \/ SectionOf(st.doc, section).t = "absent" THEN st
    ELSE LET r == CorrectSection(SectionOf(st.doc, section))
         IN [exc |-> r.exc, doc |-> WithSection(st.doc, section, r.sec)]

\* lines 150-176.  corrected = config.copy() copies the root mapping only, so
\* the sections the loop writes are the argument's own: doc is both the value
\* returned (when exc is "") and the argument as the call leaves it
auto_correct_config(doc) ==
    CorrectStep("udp", CorrectStep("tcp", CorrectStep("http", [exc |-> "", doc |-> doc])))

----------------------------------------------------------------------------
(* The calls *)

NoResult == [called |-> FALSE, raised |-> FALSE, exc |-> "", errors |-> <<>>]
NoDoc == [called |-> FALSE, raised |-> FALSE, exc |-> "",
          doc |-> [http |-> AbsentSection, tcp |-> AbsentSection, udp |-> AbsentSection,
                   entryPoints |-> Absent, other |-> Absent]]

\* no call of process_file made yet
NoOutcome ==
    [lint |-> "", read |-> "", gate |-> "", validate |-> "", correct |-> "",
     write |-> "", result |-> ""]

Init ==
    /\ \E sp \in Splits : input \in DocumentsOfSplit(sp)
    /\ config = input
    /\ pc = "loaded"
    /\ vres = NoResult
    /\ cres = NoDoc
    /\ cres2 = NoDoc
    /\ vres2 = NoResult
    /\ auto_correct = FALSE
    /\ yaml_files = 0
    /\ success = TRUE
    /\ exit_code = -1
    /\ parsed = Absent
    /\ steps = <<>>
    /\ outcome = NoOutcome
    /\ returns = <<>>

\* errors = validate_traefik_config(config)
Validate ==
    /\ pc = "loaded"
    /\ LET r == validate_traefik_config(config)
       IN vres' = [called |-> TRUE, raised |-> r.exc # "", exc |-> r.exc, errors |-> r.errors]
    /\ pc' = "validated"
    /\ UNCHANGED <<input, config, cres, cres2, vres2>>
    /\ UNCHANGED mainvars

\* corrected_config = auto_correct_config(config)
AutoCorrect ==
    /\ pc \in {"loaded", "validated"}
    /\ LET r == auto_correct_config(config)
       IN /\ cres' = [called |-> TRUE, raised |-> r.exc # "", exc |-> r.exc,
                      doc |-> IF r.exc # "" THEN NoDoc.doc ELSE r.doc]
          /\ config' = r.doc
    /\ pc' = "corrected"
    /\ UNCHANGED <<input, vres, cres2, vres2>>
    /\ UNCHANGED mainvars

\* auto_correct_config(corrected_config): the corrector applied to its own result
AutoCorrectAgain ==
    /\ pc = "corrected"
    /\ ~cres.raised
    /\ LET r == auto_correct_config(cres.doc)
       IN /\ cres2' = [called |-> TRUE, raised |-> r.exc # "", exc |-> r.exc,
                       doc |-> IF r.exc # "" THEN NoDoc.doc ELSE r.doc]
          /\ config' = r.doc
    /\ pc' = "recorrected"
    /\ UNCHANGED <<input, vres, cres, vres2>>
    /\ UNCHANGED mainvars

\* validate_traefik_config(corrected_config): the validator applied to the
\* corrector's result, for a document that was validated before its correction
ValidateCorrected ==
    /\ pc = "corrected"
    /\ vres.called
    /\ ~cres.raised
    /\ LET r == validate_traefik_config(cres.doc)
       IN vres2' = [called |-> TRUE, raised |-> r.exc # "", exc |-> r.exc, errors |-> r.errors]
    /\ pc' = "revalidated"
    /\ UNCHANGED <<input, config, vres, cres, cres2>>
    /\ UNCHANGED mainvars

Next == Validate \/ AutoCorrect \/ AutoCorrectAgain \/ ValidateCorrected

Spec == Init /\ [][Next]_vars

----------------------------------------------------------------------------
(* process_file and main *)

\* the keys of the root mapping
RootKeys(doc) ==
    {k \in {"http", "tcp", "udp", "entryPoints", "other"} :
        CASE k = "http" -> doc.http.t # "absent"
          [] k = "tcp" -> doc.tcp.t # "absent"
          [] k = "udp" -> doc.udp.t # "absent"
          [] k = "entryPoints" -> doc.entryPoints.t # "absent"
          [] k = "other" -> doc.other.t # "absent"}

\* the root mappings a file can hold
MaxFileNodes == MaxNodes \div 2
FileDocuments ==
    UNION {DocumentsOfSplit(sp) :
              sp \in {s \in Splits : s[1] + s[2] + s[3] + s[4] + s[5] <= MaxFileNodes}}

\* what yaml.safe_load returns for a file whose root is not a mapping: None
\* (empty file), a string, a number, a sequence
ScalarRoots ==
    {Null, Str("notes"), Str("http"), Str("entryPoints"), Num("5"), SeqOf({}),
     SeqOf({"http"})}

TraefikKeys == {"http", "tcp", "udp", "entryPoints"}

\* line 198: "not config or not any(key in config for key in [...])";
\* "key in config" raises TypeError on a number
GateOutcome(root) ==
    IF ~Truthy(root) THEN "skip"
    ELSE IF InRaises(root) THEN "raised"
    ELSE IF \E key \in TraefikKeys : In(key, root) THEN "traefik"
    ELSE "skip"

\* validate_traefik_config(config) as process_file calls it.  A string or a
\* sequence that holds a Traefik key passes lines 56-64; config.get of line 66
\* raises AttributeError when it holds 'entryPoints', and otherwise
\* config[section] of line 80 raises TypeError
ValidateRoot(root, doc) ==
    IF root.t = "map" THEN validate_traefik_config(doc)
    ELSE IF In("entryPoints", root) THEN [exc |-> "AttributeError", errors |-> <<>>]
    ELSE [exc |-> "TypeError", errors |-> <<>>]

\* AfterValidation without the test of line 212: a file with errors is
\* corrected whether or not --auto-correct was given
AfterValidationAlwaysCorrect(errors, flag) ==
    IF errors = <<>> THEN "valid" ELSE "correct"

\* lines 207-228: what process_file does with the error list
AfterValidation(errors, flag) ==
    IF errors = <<>> THEN "valid"
    ELSE IF flag THEN "correct"
    ELSE "errors"

\* main after the directory walk of lines 245-250, before the first file
InitMain ==
    /\ auto_correct \in BOOLEAN
    /\ yaml_files \in 0..MaxFiles
    /\ success = TRUE
    /\ exit_code = -1
    /\ pc = "main"
    /\ parsed = Absent
    /\ steps = <<>>
    /\ outcome = NoOutcome
    /\ returns = <<>>
    /\ input = NoDoc.doc
    /\ config = NoDoc.doc
    /\ vres = NoResult
    /\ cres = NoDoc
    /\ cres2 = NoDoc
    /\ vres2 = NoResult

\* process_file returns b to the loop of lines 259-262
Return(o, b) ==
    /\ outcome' = [o EXCEPT !.result = IF b THEN "True" ELSE "False"]
    /\ returns' = Append(returns, outcome')
    /\ success' = IF b THEN success ELSE FALSE
    /\ pc' = "main"
    /\ UNCHANGED exit_code

\* an exception leaves process_file and main uncaught: the interpreter prints
\* the traceback and exits with status 1
Raise(o) ==
    /\ outcome' = [o EXCEPT !.result = "raised"]
    /\ returns' = Append(returns, outcome')
    /\ exit_code' = 1
    /\ pc' = "exit"
    /\ UNCHANGED success

\* process_file goes on to its next statement
Continue(o, next) ==
    /\ outcome' = o
    /\ pc' = next
    /\ UNCHANGED <<returns, success, exit_code>>

\* line 259: the loop takes the next file and calls process_file
StartFile ==
    /\ pc = "main"
    /\ Len(returns) < yaml_files
    /\ pc' = "lint"
    /\ steps' = <<>>
    /\ outcome' = NoOutcome
    /\ parsed' = Absent
    /\ input' = NoDoc.doc
    /\ config' = NoDoc.doc
    /\ vres' = NoResult
    /\ cres' = NoDoc
    /\ UNCHANGED <<auto_correct, yaml_files, success, exit_code, returns, cres2, vres2>>

\* lines 183-184 with run_yamllint (lines 31-45): yamllint passes, reports
\* errors, or is not installed
RunYamllint ==
    /\ pc = "lint"
    /\ steps' = Append(steps, "lint")
    /\ \E res \in {"ok", "errors", "not_found"} :
          LET o == [outcome EXCEPT !.lint = res]
          IN IF res = "ok" THEN Continue(o, "read") ELSE Return(o, FALSE)
    /\ UNCHANGED <<auto_correct, yaml_files, parsed>>
    /\ UNCHANGED docvars

\* lines 187-195: open the file and yaml.safe_load it
ReadAndParse ==
    /\ pc = "read"
    /\ \E res \in {"ok", "io_error", "yaml_error"} :
          LET o == [outcome EXCEPT !.read = res]
          IN /\ steps' = IF res = "io_error" THEN Append(steps, "read")
                         ELSE steps \o <<"read", "parse">>
             /\ IF res = "ok"
                THEN /\ \/ /\ parsed' \in ScalarRoots
                           /\ input' = NoDoc.doc
                        \/ /\ input' \in FileDocuments
                           /\ parsed' = MapOf(RootKeys(input'))
                     /\ config' = input'
                     /\ Continue(o, "gate")
                ELSE /\ Return(o, FALSE)
                     /\ UNCHANGED <<parsed, input, config>>
    /\ UNCHANGED <<auto_correct, yaml_files, vres, cres, cres2, vres2>>

\* lines 198-203: an empty or non-Traefik file is valid without validation
Gate ==
    /\ pc = "gate"
    /\ LET g == GateOutcome(parsed)
           o == [outcome EXCEPT !.gate = g]
       IN CASE g = "skip" -> Return(o, TRUE)
            [] g = "raised" -> Raise(o)
            [] g = "traefik" -> Continue(o, "validate")
    /\ UNCHANGED <<auto_correct, yaml_files, parsed, steps>>
    /\ UNCHANGED docvars

\* lines 206-228 up to the call of auto_correct_config
ValidateFile ==
    /\ pc = "validate"
    /\ steps' = Append(steps, "validate")
    /\ LET r == ValidateRoot(parsed, config)
       IN /\ vres' = [called |-> TRUE, raised |-> r.exc # "", exc |-> r.exc,
                      errors |-> r.errors]
          /\ IF r.exc # ""
             THEN Raise([outcome EXCEPT !.validate = "raised"])
             ELSE LET a == AfterValidation(r.errors, auto_correct)
                      o == [outcome EXCEPT !.validate =
                               IF r.errors = <<>> THEN "valid" ELSE "errors"]
                  IN CASE a = "valid" -> Return(o, TRUE)
                       [] a = "errors" -> Return(o, FALSE)
                       [] a = "correct" -> Continue(o, "correct")
    /\ UNCHANGED <<auto_correct, yaml_files, parsed, input, config, cres, cres2, vres2>>

\* line 214
CorrectFile ==
    /\ pc = "correct"
    /\ steps' = Append(steps, "correct")
    /\ LET r == auto_correct_config(config)
       IN /\ cres' = [called |-> TRUE, raised |-> r.exc # "", exc |-> r.exc,
                      doc |-> IF r.exc # "" THEN NoDoc.doc ELSE r.doc]
          /\ config' = r.doc
          /\ IF r.exc # ""
             THEN Raise([outcome EXCEPT !.correct = "raised"])
             ELSE Continue([outcome EXCEPT !.correct = "ok"], "write")
    /\ UNCHANGED <<auto_correct, yaml_files, parsed, input, vres, cres2, vres2>>

\* lines 217-224: open the file for writing and yaml.dump into it
WriteFile ==
    /\ pc = "write"
    /\ steps' = Append(steps, "write")
    /\ \E res \in {"ok", "io_error"} :
          Return([outcome EXCEPT !.write = res], res = "ok")
    /\ UNCHANGED <<auto_correct, yaml_files, parsed>>
    /\ UNCHANGED docvars

\* lines 252-254 and 264-269: no file found, or the loop is over
Exit ==
    /\ pc = "main"
    /\ Len(returns) = yaml_files
    /\ exit_code' = IF success THEN 0 ELSE 1
    /\ pc' = "exit"
    /\ UNCHANGED <<auto_correct, yaml_files, success, parsed, steps, outcome, returns>>
    /\ UNCHANGED docvars

NextMain ==
    \/ StartFile
    \/ RunYamllint
    \/ ReadAndParse
    \/ Gate
    \/ ValidateFile
    \/ CorrectFile
    \/ WriteFile
    \/ Exit

SpecMain == InitMain /\ [][NextMain]_vars

----------------------------------------------------------------------------
(* Vocabulary of the properties *)

Range(seq) == {seq[i] : i \in 1..Len(seq)}

Count(seq, x) == Cardinality({i \in 1..Len(seq) : seq[i] = x})

AllRouterNames == Range(RouterNames)

\* the strings the documents use as service references
AllServiceNames == {v.s : v \in {w \in ServiceValues : w.t = "str"}}

\* every message the validator can emit about one section
SectionMessages ==
    [section \in Range(Sections) |->
        {MsgSectionNotDict(section), MsgRoutersNotDict(section),
         MsgMissingServices(section), MsgMissingRouters(section)}
        \cup {MsgRouterNotDict(n, section) : n \in AllRouterNames}
        \cup {MsgRuleMissing(n, section) : n \in AllRouterNames}
        \cup {MsgRuleType(n, section) : n \in AllRouterNames}
        \cup {MsgServiceType(n, section) : n \in AllRouterNames}
        \cup {MsgUndefinedService(n, section, x) :
                 n \in AllRouterNames, x \in AllServiceNames}]

PerSectionMessages == UNION {SectionMessages[section] : section \in Range(Sections)}

\* the sections of the validated document that are mappings with a mapping
\* under 'routers', and their mapping-typed routers
RouterSections ==
    {section \in Range(Sections) :
        /\ SectionOf(input, section).t = "map"
        /\ SectionOf(input, section).routers.t = "map"}

MapRouterItems(section) ==
    {it \in Range(SectionOf(input, section).routers.items) : it.val.t = "map"}

\* the router's service is a non-empty string that does not end with '@internal'
NonInternalReference(router) ==
    /\ router.service.t = "str"
    /\ router.service.s # ""
    /\ ~EndsWith(router.service.s, "@internal")

\* the keys of the section's 'services' mapping
ServiceKeys(sec) == IF sec.services.t = "map" THEN sec.services.ks ELSE {}

NoTraefikKeys(doc) ==
    /\ doc.http.t = "absent" /\ doc.tcp.t = "absent" /\ doc.udp.t = "absent"
    /\ doc.entryPoints.t = "absent"

----------------------------------------------------------------------------
(* C1 *)

\* C1: validate_traefik_config never raises: whatever the types found at any
\* level of the document, the call returns a list of error strings.
C1_NeverRaises == vres.called => ~vres.raised

----------------------------------------------------------------------------
(* C2 *)

\* C2 as stated: for every document, empty or not, with none of http, tcp, udp,
\* entryPoints at the root, validate_traefik_config returns an empty list.
C2_EmptyListWithoutKeys ==
    (vres.called /\ NoTraefikKeys(input)) => (~vres.raised /\ vres.errors = <<>>)

\* C2 amended: with none of http, tcp, udp, entryPoints at the root,
\* validate_traefik_config returns the empty list for the empty document and
\* the one-element list of the "No Traefik configuration found" message for a
\* document that has other keys.
C2_NoKeysResult ==
    (vres.called /\ NoTraefikKeys(input)) =>
        /\ ~vres.raised
        /\ vres.errors = IF input.other.t = "absent" THEN <<>> ELSE <<MsgNoConfig>>

C2_Witness ==
    /\ vres.called
    /\ NoTraefikKeys(input)
    /\ input.other.t # "absent"
    /\ vres.errors = <<MsgNoConfig>>

----------------------------------------------------------------------------
(* C3 *)

\* C3: for every document with at least one of http/tcp/udp whose entryPoints is
\* missing, not a mapping or empty, the result holds the entryPoints message
\* exactly once, as its first entry, and every other entry is a per-section
\* error; when entryPoints is a non-empty mapping the message never appears.
C3_EntryPointsErrorFirst ==
    (vres.called /\ HasHttpTcpUdp(input)) =>
        IF EntryPointsInvalid(input)
        THEN /\ ~vres.raised
             /\ Len(vres.errors) >= 1
             /\ vres.errors[1] = MsgEntryPoints
             /\ Count(vres.errors, MsgEntryPoints) = 1
             /\ \A i \in 2..Len(vres.errors) : vres.errors[i] \in PerSectionMessages
        ELSE MsgEntryPoints \notin Range(vres.errors)

----------------------------------------------------------------------------
(* C4 *)

\* C4: for every mapping-typed router r of section S the validator emits the
\* undefined-service error for r exactly when r.service is a non-empty string x
\* that does not end with '@internal' and x is not a key of the 'services'
\* mapping of the same section S.
C4_UndefinedServiceIff ==
    vres.called =>
        \A section \in RouterSections : \A it \in MapRouterItems(section) :
            LET sec == SectionOf(input, section)
                expected == /\ NonInternalReference(it.val)
                            /\ it.val.service.s \notin ServiceKeys(sec)
            IN /\ expected =>
                    MsgUndefinedService(it.name, section, it.val.service.s)
                        \in Range(vres.errors)
               /\ ~expected =>
                    \A x \in AllServiceNames :
                        MsgUndefinedService(it.name, section, x) \notin Range(vres.errors)

----------------------------------------------------------------------------
(* C5 *)

\* C5: in a mapping section S with a mapping 'routers', if any router, at any
\* position, has a non-empty string service not ending with '@internal' and S's
\* 'services' is missing, not a mapping or empty, the result holds the
\* missing-services error of S.
C5_MissingServicesForAnyRouter ==
    vres.called =>
        \A section \in RouterSections :
            LET sec == SectionOf(input, section) IN
            ( /\ \E it \in MapRouterItems(section) : NonInternalReference(it.val)
              /\ ServicesMissingOrEmpty(sec) )
            => MsgMissingServices(section) \in Range(vres.errors)

----------------------------------------------------------------------------
(* C6 *)

\* the rule is missing, not a string, or blank after trimming
RuleUnusable(router) ==
    \/ router.rule.t = "absent"
    \/ router.rule.t # "str"
    \/ Strip(router.rule.s) = ""

\* C6: per mapping-typed router, http and tcp emit the missing-rule error exactly
\* once if and only if the rule is missing, not a string or blank; udp emits
\* nothing for a missing rule, exactly the invalid-rule-type error for a present
\* rule that is not a string, and never the missing-rule error.
C6_RuleCheck ==
    vres.called =>
        \A section \in RouterSections : \A it \in MapRouterItems(section) :
            LET missing == Count(vres.errors, MsgRuleMissing(it.name, section))
                badtype == Count(vres.errors, MsgRuleType(it.name, section))
            IN IF section \in {"http", "tcp"}
               THEN missing = (IF RuleUnusable(it.val) THEN 1 ELSE 0)
               ELSE /\ missing = 0
                    /\ it.val.rule.t = "absent" => badtype = 0
                    /\ it.val.rule.t \notin {"absent", "str"} => badtype = 1

----------------------------------------------------------------------------
(* C7 *)

\* the sections of the validated document that are mappings with no key other
\* than 'middlewares'
MiddlewareOnlySections ==
    {section \in Range(Sections) :
        /\ SectionOf(input, section).t = "map"
        /\ SectionKeys(SectionOf(input, section)) \subseteq {"middlewares"}}

PresentSections == {section \in Range(Sections) : SectionOf(input, section).t # "absent"}

\* C7: a section that is a mapping whose keys are a subset of {middlewares}
\* contributes no error to the result, whatever 'middlewares' holds; with a
\* non-empty entryPoints mapping and only such sections the result is empty.
C7_MiddlewareOnlySectionIsSilent ==
    vres.called =>
        /\ ~vres.raised =>
             \A section \in MiddlewareOnlySections :
                 Range(vres.errors) \cap SectionMessages[section] = {}
        /\ (~EntryPointsInvalid(input) /\ PresentSections \subseteq MiddlewareOnlySections)
             => (~vres.raised /\ vres.errors = <<>>)

C7_Witness ==
    /\ vres.called
    /\ ~vres.raised
    /\ vres.errors # <<>>
    /\ \E section \in MiddlewareOnlySections :
           SectionOf(input, section).middlewares.t # "absent"

----------------------------------------------------------------------------
(* C8 *)

\* C8: auto_correct_config never raises: on every document the validator takes,
\* a section that is a string, null or a sequence included, it returns a document.
C8_CorrectorNeverRaises == cres.called => ~cres.raised

----------------------------------------------------------------------------
(* C9 *)

\* C9: auto_correct_config is pure: after the call the document it was given,
\* root and nested section mappings, is as it was before.
C9_InputUnchanged == cres.called => config = input

----------------------------------------------------------------------------
(* C10 *)

\* C10: whenever auto_correct_config returns on d, applying it to its result
\* returns that same result: correct(correct(d)) = correct(d).
C10_Idempotent ==
    cres2.called => (~cres2.raised /\ cres2.doc = cres.doc)

C10_Witness ==
    /\ cres2.called
    /\ ~cres2.raised
    /\ cres.doc # input

----------------------------------------------------------------------------
(* C11 *)

\* after differs from before by nothing but an empty 'routers' and/or an empty
\* 'services' added to a mapping that is not middleware-only
SectionKept(before, after) ==
    /\ after.t = before.t
    /\ after.middlewares = before.middlewares
    /\ after.extra = before.extra
    /\ \/ after.routers = before.routers
       \/ /\ before.routers.t = "absent"
          /\ after.routers = MapRouters(<<>>)
          /\ before.t = "map"
          /\ ~(SectionKeys(before) \subseteq {"middlewares"})
    /\ \/ after.services = before.services
       \/ /\ before.services.t = "absent"
          /\ after.services = MapOf({})
          /\ before.t = "map"
          /\ ~(SectionKeys(before) \subseteq {"middlewares"})

\* C11: every key of the input, at the root and inside each section, is in the
\* result with the same value; the result differs from the input only by empty
\* 'routers' / 'services' mappings added to http/tcp/udp sections that are not
\* middleware-only; entryPoints and the other root keys are untouched.
C11_MonotonicSafety ==
    (cres.called /\ ~cres.raised) =>
        /\ cres.doc.entryPoints = input.entryPoints
        /\ cres.doc.other = input.other
        /\ \A section \in Range(Sections) :
               SectionKept(SectionOf(input, section), SectionOf(cres.doc, section))

C11_Witness ==
    /\ cres.called
    /\ ~cres.raised
    /\ \E section \in Range(Sections) :
           /\ SectionOf(input, section).routers.t = "absent"
           /\ SectionOf(cres.doc, section).routers.t = "map"
           /\ Truthy(SectionOf(input, section).services)
    /\ \E section \in Range(Sections) :
           /\ SectionOf(input, section).services.t = "absent"
           /\ SectionOf(cres.doc, section).services.t = "map"

----------------------------------------------------------------------------
(* C14 *)

\* C14: for every non-empty document with none of http/tcp/udp/entryPoints at
\* the root, validate_traefik_config returns exactly the one-element list of
\* the "No Traefik configuration found" message: no other check adds to it.
C14_PresenceGate ==
    (vres.called /\ NoTraefikKeys(input) /\ ~IsEmptyDoc(input)) =>
        /\ ~vres.raised
        /\ Len(vres.errors) = 1
        /\ vres.errors[1] = MsgNoConfig

C14_Witness ==
    /\ vres.called
    /\ ~vres.raised
    /\ ~IsEmptyDoc(input)
    /\ NoTraefikKeys(input)
    /\ Len(vres.errors) = 1

----------------------------------------------------------------------------
(* C15 *)

\* entryPoints is the only one of the four Traefik keys at the root
OnlyEntryPoints(doc) == HasEntryPoints(doc) /\ ~HasHttpTcpUdp(doc)

----------------------------------------------------------------------------
(* C16 *)

\* C16: for a mapping-typed section S the orphan-services error is emitted if
\* and only if S's 'services' is present, a mapping and non-empty, 'routers' is
\* absent from S, and S's keys are not a subset of {middlewares, services}; a
\* section holding only 'services' (or 'services' and 'middlewares') validates
\* with no error for that section.
C16_OrphanServicesIff ==
    vres.called =>
        \A section \in Range(Sections) :
            LET sec == SectionOf(input, section)
                orphan == /\ sec.services.t = "map"
                          /\ sec.services.ks # {}
                          /\ sec.routers.t = "absent"
                          /\ ~(SectionKeys(sec) \subseteq {"middlewares", "services"})
            IN sec.t = "map" =>
                /\ (MsgMissingRouters(section) \in Range(vres.errors)) <=> orphan
                /\ ( /\ sec.services.t = "map"
                     /\ sec.services.ks # {}
                     /\ SectionKeys(sec) \subseteq {"middlewares", "services"} )
                   => /\ ~vres.raised
                      /\ Range(vres.errors) \cap SectionMessages[section] = {}

----------------------------------------------------------------------------
(* C17 *)

SectionIndex(section) == CHOOSE k \in 1..Len(Sections) : Sections[k] = section

\* the places of the validator's messages in the order the claim fixes, for the
\* validated document: the entryPoints error, then per section (http, tcp, udp)
\* the routers in key order, rule before service, then the missing-services
\* error, then the orphan-services error
RankedMessages ==
    {<<0, MsgEntryPoints>>}
    \cup UNION {
        LET base == 1000 * SectionIndex(section)
            items == SectionOf(input, section).routers.items
        IN {<<base, MsgSectionNotDict(section)>>, <<base, MsgRoutersNotDict(section)>>,
            <<base + 900, MsgMissingServices(section)>>,
            <<base + 901, MsgMissingRouters(section)>>}
           \cup UNION {
                {<<base + 10 * i, MsgRouterNotDict(items[i].name, section)>>,
                 <<base + 10 * i + 1, MsgRuleMissing(items[i].name, section)>>,
                 <<base + 10 * i + 1, MsgRuleType(items[i].name, section)>>,
                 <<base + 10 * i + 2, MsgServiceType(items[i].name, section)>>}
                \cup {<<base + 10 * i + 2, MsgUndefinedService(items[i].name, section, x)>> :
                         x \in AllServiceNames} :
                i \in 1..Len(items)} :
        section \in Range(Sections)}

RanksOf(msg) == {p[1] : p \in {q \in RankedMessages : q[2] = msg}}

\* C17: the entryPoints error comes first, then the errors of http, of tcp, of
\* udp; within a section the per-router errors follow the routers' key order,
\* a router's rule error before its service error, then the missing-services
\* error, then the orphan-services error.
C17_ErrorOrder ==
    (vres.called /\ ~vres.raised /\ vres.errors # <<MsgNoConfig>>) =>
        /\ \A j \in 1..Len(vres.errors) : Cardinality(RanksOf(vres.errors[j])) = 1
        /\ \A j, k \in 1..Len(vres.errors) :
               j < k => \A rj \in RanksOf(vres.errors[j]), rk \in RanksOf(vres.errors[k]) :
                            rj < rk

C17_Witness ==
    /\ vres.called
    /\ ~vres.raised
    /\ Len(vres.errors) >= 5
    /\ vres.errors[1] = MsgEntryPoints
    /\ \E n \in AllRouterNames, x \in AllServiceNames :
           /\ MsgRuleMissing(n, "http") \in Range(vres.errors)
           /\ MsgUndefinedService(n, "http", x) \in Range(vres.errors)
    /\ MsgMissingServices("http") \in Range(vres.errors)
    /\ Range(vres.errors) \cap SectionMessages["tcp"] # {}

----------------------------------------------------------------------------
(* C18 *)

\* C18: the missing-services error of section S is emitted only if some router
\* inside S itself has a string service not ending with '@internal'; a section
\* without such a router never gets it, whatever the other sections contain.
C18_MissingServicesOnlyForOwnRouters ==
    vres.called =>
        \A section \in Range(Sections) :
            MsgMissingServices(section) \in Range(vres.errors) =>
                /\ section \in RouterSections
                /\ \E it \in MapRouterItems(section) : NonInternalReference(it.val)

----------------------------------------------------------------------------
(* C19 *)

\* C19: auto_correct_config inserts an empty 'services' into a section that is
\* not middleware-only exactly when the section lacks 'services' and some
\* mapping-typed router has a non-empty string service not ending with
\* '@internal'; a truthy service that is not a string never causes an insertion.
C19_InsertionFollowsValidatorRule ==
    (cres.called /\ ~cres.raised) =>
        \A section \in Range(Sections) :
            LET sec == SectionOf(input, section)
                inserted == /\ sec.services.t = "absent"
                            /\ SectionOf(cres.doc, section).services.t # "absent"
            IN (sec.t = "map" /\ ~(SectionKeys(sec) \subseteq {"middlewares"})) =>
                (inserted <=>
                    /\ sec.services.t = "absent"
                    /\ section \in RouterSections
                    /\ \E it \in MapRouterItems(section) : NonInternalReference(it.val))

----------------------------------------------------------------------------
(* C12 *)

\* the errors the corrector cannot repair: rule errors, undefined-service and
\* invalid-service-type errors, the entryPoints error and the missing-services
\* error
UnfixableMessages ==
    {MsgEntryPoints}
    \cup UNION {
        {MsgMissingServices(section)}
        \cup {MsgRuleMissing(n, section) : n \in AllRouterNames}
        \cup {MsgRuleType(n, section) : n \in AllRouterNames}
        \cup {MsgServiceType(n, section) : n \in AllRouterNames}
        \cup {MsgUndefinedService(n, section, x) :
                 n \in AllRouterNames, x \in AllServiceNames} :
        section \in Range(Sections)}

\* C12: for every document d on which the calls return, every rule error,
\* undefined-service error, invalid-service-type error, entryPoints error and
\* missing-services error of validate(d) is also in validate(correct(d)).
C12_CorrectionHidesNothing ==
    (vres2.called /\ ~vres.raised /\ ~vres2.raised) =>
        \A e \in Range(vres.errors) :
            e \in UnfixableMessages => e \in Range(vres2.errors)

C12_Witness ==
    /\ vres2.called
    /\ ~vres.raised
    /\ ~vres2.raised
    /\ cres.doc # input
    /\ Range(vres.errors) \cap UnfixableMessages # {}
    /\ vres2.errors # vres.errors

----------------------------------------------------------------------------
(* C13 *)

\* the file of a finished process_file call passed linting and validation, or
\* was successfully auto-corrected
Passes(o) ==
    /\ o.lint = "ok"
    /\ o.read = "ok"
    /\ \/ o.gate = "skip"
       \/ o.validate = "valid"
       \/ /\ o.validate = "errors"
          /\ auto_correct
          /\ o.correct = "ok"
          /\ o.write = "ok"

\* C13: when main has exited, its code is 0 if every discovered file passed
\* or was successfully auto-corrected and 1 otherwise, and every discovered
\* file was processed.
C13_ExitCodeAndAllProcessed ==
    pc = "exit" =>
        /\ Len(returns) = yaml_files
        /\ \A i \in 1..Len(returns) : returns[i].result \in {"True", "False"}
        /\ exit_code = IF \A i \in 1..Len(returns) : Passes(returns[i]) THEN 0 ELSE 1

----------------------------------------------------------------------------
(* C20 *)

\* the positions of a call in the calls made for the current file
Positions(call) == {i \in 1..Len(steps) : steps[i] = call}

\* every call of kind first comes before every call of kind second
Precedes(first, second) ==
    \A j \in Positions(second) : \E i \in Positions(first) : i < j

\* C20: for each file the linter is called exactly once and before any read,
\* parse, validation or write; when the linter fails or is missing,
\* process_file returns False having made no other call; the validator is called
\* only after a successful parse; the file is written only after the validator
\* returned a non-empty error list with auto-correct requested.
C20_StepOrder ==
    /\ Cardinality(Positions("lint")) <= 1
    /\ steps # <<>> => steps[1] = "lint"
    /\ outcome.result # "" => Cardinality(Positions("lint")) = 1
    /\ outcome.lint \in {"errors", "not_found"} =>
           steps = <<"lint">> /\ outcome.result = "False"
    /\ Positions("validate") # {} =>
           outcome.read = "ok" /\ Precedes("parse", "validate")
    /\ Positions("write") # {} =>
           /\ Precedes("validate", "write")
           /\ vres.called /\ ~vres.raised /\ vres.errors # <<>>
           /\ auto_correct

C20_Witness ==
    /\ Len(returns) = 2
    /\ returns[1].lint = "not_found"
    /\ steps = <<"lint", "read", "parse", "validate", "correct", "write">>
    /\ outcome.result = "True"

====
